---- MODULE Spec2Model ----
(***************************************************************************)
(* Model of the TIWA task orchestrator (tasks.py, tools.py) and of the     *)
(* per-prompt dispatch in server.py.                                       *)
(*                                                                         *)
(* The asyncio event loop runs one coroutine at a time and switches only   *)
(* at an await that really suspends, so every action below is the code     *)
(* between two suspension points.                                          *)
(***************************************************************************)
EXTENDS Integers, Sequences, FiniteSets, Bags, TLC

\* ------------------------------------------------------------------ bounds
\* Projects the store can hold.
MaxProjects == 1
\* Subtasks over all projects, coroutines in flight and action starts per
\* project, where execute_next_task calls may overlap (Spec).
MaxSubtasks == 2
MaxCalls == 2
MaxExec == 2
\* Subtasks over all projects where calls come one after the other (SpecSeq).
MaxSeqSubtasks == 3
\* Subtasks over all projects where the plans may carry any key (SpecKeys).
MaxKeySubtasks == 2

\* None of Python.
Null == "None"

\* The ids a caller can pass; an id is unknown until create has allocated it.
ProjectIds == 1..MaxProjects

\* Project prompts, as character lists: "a" is a character the filename
\* whitelist keeps, "?" one it drops.
Prompts == {<<"a", "?">>}

\* ------------------------------------------------------- task store state
VARIABLES
    tasks,      \* tasks._tasks: project_id -> project task dict
    folders,    \* project folders that exist on disk (projects/<project_id>)
    zips,       \* files present in generated_files/
    calls,      \* the bag of execute_next_task coroutines suspended in generate_image
    execLog,    \* per project, the list positions whose action was started, in order
    finalized,  \* per project, the link of each finalize_project call that completed it
    ret         \* what the call that returned last returned

taskVars == <<tasks, folders, zips, calls, execLog, finalized, ret>>

\* ------------------------------------------------------------ subtask specs
\* What the planner hands to add_subtasks: dicts with an action and, as the
\* dict is unpacked last, possibly keys that collide with the bookkeeping keys.
\* A subtask_id the planner put into a spec itself (no uuid4 equals it).
SuppliedId == <<0, 0>>

PlainSpecs ==
    { [action |-> "WRITE_FILE"], [action |-> "GENERATE_LOGO"], [action |-> "OTHER"] }

ReservedKeySpecs ==
    { [action |-> "GENERATE_LOGO", subtask_id |-> SuppliedId],
      [action |-> "OTHER", status |-> "completed"] }

SubtaskSpecs == PlainSpecs \cup ReservedKeySpecs

\* The plans one add_subtasks call can get: one spec, or one or two specs.
Plans1(specs) == {<<s>> : s \in specs}

Plans2(specs) == Plans1(specs) \cup {<<s, t>> : s, t \in specs}

\* ------------------------------------------------------------------ tasks.py
\* _tasks.get(project_id): the task dict, or None.
NoTask == [none |-> TRUE]

get_task(t, project_id) ==
    IF project_id \in DOMAIN t THEN t[project_id] ELSE NoTask

\* uuid4 for a project: an id no project has.
NewProjectId(t) == Cardinality(DOMAIN t) + 1

create_project_task(t, project_id, prompt) ==
    [p \in DOMAIN t \cup {project_id} |->
        IF p = project_id
        THEN [project_id |-> project_id, prompt |-> prompt, status |-> "pending",
              completed_at |-> Null, subtasks |-> <<>>]
        ELSE t[p]]

\* {"subtask_id": ..., "status": "pending", "result": None, **subtask_data}
\* uuid4 for a subtask: unique, here the pair of project and list position.
new_subtask(subtask_id, subtask_data) ==
    LET base == [subtask_id |-> subtask_id, status |-> "pending", result |-> Null]
    IN  [k \in DOMAIN base \cup DOMAIN subtask_data |->
            IF k \in DOMAIN subtask_data THEN subtask_data[k] ELSE base[k]]

RECURSIVE append_subtasks(_, _, _)
append_subtasks(subtasks, project_id, plan) ==
    IF plan = <<>> THEN subtasks
    ELSE append_subtasks(
            Append(subtasks, new_subtask(<<project_id, Len(subtasks) + 1>>, Head(plan))),
            project_id, Tail(plan))

\* The new subtasks put ahead of the ones the project has.
add_subtasks_front(t, project_id, plan) ==
    [t EXCEPT ![project_id].subtasks = append_subtasks(<<>>, project_id, plan) \o @]

\* task["subtasks"].append(new_subtask) for every entry of the plan, in order.
add_subtasks(t, project_id, plan) ==
    [t EXCEPT ![project_id].subtasks = append_subtasks(@, project_id, plan)]

\* A scan that keeps the last match instead of returning at the first.
FirstPending_last(subtasks) ==
    IF \E i \in 1..Len(subtasks) : subtasks[i].status = "pending"
    THEN CHOOSE i \in 1..Len(subtasks) :
            /\ subtasks[i].status = "pending"
            /\ \A j \in (i + 1)..Len(subtasks) : subtasks[j].status # "pending"
    ELSE 0

\* Position of the first pending subtask, 0 for None.
FirstPending(subtasks) ==
    IF \E i \in 1..Len(subtasks) : subtasks[i].status = "pending"
    THEN CHOOSE i \in 1..Len(subtasks) :
            /\ subtasks[i].status = "pending"
            /\ \A j \in 1..(i - 1) : subtasks[j].status # "pending"
    ELSE 0

get_next_pending_subtask(t, project_id) ==
    IF get_task(t, project_id) = NoTask THEN 0
    ELSE FirstPending(t[project_id].subtasks)

\* Status and result written to every subtask of the project.
update_subtask_status_all(t, project_id, subtask_id, status, result) ==
    IF get_task(t, project_id) = NoTask THEN t
    ELSE [t EXCEPT ![project_id].subtasks =
            [i \in 1..Len(@) |->
                [k \in DOMAIN @[i] |->
                    IF k = "status" THEN status
                    ELSE IF k = "result" THEN result ELSE @[i][k]]]]

\* The first subtask with that subtask_id gets the status and the result.
update_subtask_status(t, project_id, subtask_id, status, result) ==
    IF get_task(t, project_id) = NoTask THEN t
    ELSE LET subtasks == t[project_id].subtasks
             hits == {i \in 1..Len(subtasks) : subtasks[i].subtask_id = subtask_id}
         IN  IF hits = {} THEN t
             ELSE LET i == CHOOSE i \in hits : \A j \in hits : i <= j
                  IN  [t EXCEPT ![project_id].subtasks[i] =
                          [k \in DOMAIN @ |->
                              IF k = "status" THEN status
                              ELSE IF k = "result" THEN result ELSE @[k]]]

complete_project_task(t, project_id) ==
    IF get_task(t, project_id) = NoTask THEN t
    ELSE [t EXCEPT ![project_id].status = "completed",
                   ![project_id].completed_at = "utcnow"]

\* ------------------------------------------------------------------ tools.py
\* re.sub(r'[^a-zA-Z0-9._-]', '', ...), then the default for an empty name.
Whitelisted(ch) == ch = "a"

sanitize_filename(filename) ==
    LET sanitized == SelectSeq(filename, Whitelisted)
    IN  IF sanitized # <<>> THEN sanitized ELSE <<"sanitized_default_name">>

\* sanitize_filename(prompt[:30]) + ".zip", sanitized again by zip_directory.
ZipName(prompt) ==
    LET project_name == sanitize_filename(SubSeq(prompt, 1, IF Len(prompt) < 30 THEN Len(prompt) ELSE 30))
    IN  sanitize_filename(project_name) \o <<".zip">>

NoPending(subtasks) == \A i \in 1..Len(subtasks) : subtasks[i].status # "pending"

TotalSubtasks ==
    LET RECURSIVE Sum(_)
        Sum(S) == IF S = {} THEN 0
                  ELSE LET p == CHOOSE p \in S : TRUE
                       IN  Len(tasks[p].subtasks) + Sum(S \ {p})
    IN  Sum(DOMAIN tasks)

\* A return text that carries no download link.
NoLink == <<>>

\* No project has been created.
InitTasks ==
    /\ tasks = <<>>
    /\ folders = {}
    /\ zips = {}
    /\ calls = EmptyBag
    /\ execLog = [p \in ProjectIds |-> <<>>]
    /\ finalized = [p \in ProjectIds |-> <<>>]
    /\ ret = [op |-> "none", kind |-> "none", link |-> NoLink]

Return(op, kind, link) ==
    ret' = [op |-> op, kind |-> kind, link |-> link]

AllIdle == calls = EmptyBag

\* ----------------------------------------------------------------- actions
\* build_project, lines 196-199 (and any later add_subtasks call): the two
\* task-store operations behind it, create and plan.
CreateProject(prompt) ==
    /\ Cardinality(DOMAIN tasks) < MaxProjects
    /\ LET project_id == NewProjectId(tasks)
       IN  /\ tasks' = create_project_task(tasks, project_id, prompt)
           /\ folders' = folders \cup {project_id}
           /\ Return("create", "ok", NoLink)
    /\ UNCHANGED <<zips, calls, execLog, finalized>>

Plan(project_id, plan, maxSubtasks) ==
    /\ TotalSubtasks + Len(plan) <= maxSubtasks
    /\ IF get_task(tasks, project_id) = NoTask
       THEN /\ Return("plan", "not_found", NoLink)
            /\ UNCHANGED tasks
       ELSE /\ tasks' = add_subtasks(tasks, project_id, plan)
            /\ Return("plan", "ok", NoLink)
    /\ UNCHANGED <<folders, zips, calls, execLog, finalized>>

\* The ready-to-finalize text for every project with nothing pending, the
\* completed ones included.
NothingToExecute_ready(project_task) ==
    IF project_task # NoTask /\ NoPending(project_task.subtasks)
    THEN "ready_to_finalize"
    ELSE "no_pending_tasks"

\* What execute_next_task returns when get_next_pending_subtask gave None.
NothingToExecute(project_task) ==
    IF project_task # NoTask /\ NoPending(project_task.subtasks)
    THEN IF project_task.status # "completed" THEN "ready_to_finalize"
         ELSE "already_completed"
    ELSE "no_pending_tasks"

\* execute_next_task up to its first suspension. WRITE_FILE raises TypeError
\* while the arguments of the completion call are built (a set literal holding
\* a dict), before anything is awaited; GENERATE_LOGO suspends in
\* generate_image; any other action falls through both branches.
execute_next_task(project_id, maxExec) ==
    /\ LET idx == get_next_pending_subtask(tasks, project_id)
       IN  IF idx = 0
           THEN /\ Return("execute", NothingToExecute(get_task(tasks, project_id)), NoLink)
                /\ UNCHANGED <<tasks, calls, execLog>>
           ELSE LET subtask == tasks[project_id].subtasks[idx]
                    subtask_id == subtask.subtask_id
                    action == subtask.action
                IN  /\ Len(execLog[project_id]) < maxExec
                    /\ execLog' = [execLog EXCEPT ![project_id] = Append(@, idx)]
                    /\ CASE action = "WRITE_FILE" ->
                              /\ tasks' = update_subtask_status(tasks, project_id, subtask_id, "failed", "TypeError")
                              /\ Return("execute", "error", NoLink)
                              /\ UNCHANGED calls
                         [] action = "GENERATE_LOGO" ->
                              /\ BagCardinality(calls) < MaxCalls
                              /\ calls' = calls (+) SetToBag({[project_id |-> project_id,
                                                              subtask_id |-> subtask_id]})
                              /\ UNCHANGED <<tasks, ret>>
                         [] OTHER ->
                              /\ tasks' = update_subtask_status(tasks, project_id, subtask_id, "completed", "")
                              /\ Return("execute", "completed", NoLink)
                              /\ UNCHANGED calls
    /\ UNCHANGED <<folders, zips, finalized>>

\* execute_next_task from the return of generate_image on: the static
\* directory of the project is made, then the image is moved into it (moved),
\* or the move raises because generate_image returned an error text.
execute_next_task_resume(call, moved) ==
    /\ BagIn(call, calls)
    /\ LET project_id == call.project_id
           subtask_id == call.subtask_id
       IN  /\ folders' = folders \cup {project_id}
           /\ IF moved
              THEN /\ tasks' = update_subtask_status(tasks, project_id, subtask_id, "completed", "Logo generated")
                   /\ Return("execute", "completed", NoLink)
              ELSE /\ tasks' = update_subtask_status(tasks, project_id, subtask_id, "failed", "move failed")
                   /\ Return("execute", "error", NoLink)
    /\ calls' = calls (-) SetToBag({call})
    /\ UNCHANGED <<zips, execLog, finalized>>

\* The guard with a status literal no project ever has.
AlreadyComplete_typo(project_task) == project_task.status = "complete"

\* finalize_project, line 269.
AlreadyComplete(project_task) == project_task.status = "completed"

\* The repeated call answering with the download link again.
AlreadyCompleteResult_link(project_task) ==
    [kind |-> "already_complete", link |-> ZipName(project_task.prompt)]

\* finalize_project, line 270: "Project is already complete."
AlreadyCompleteResult(project_task) == [kind |-> "already_complete", link |-> NoLink]

\* The guard looking for failed subtasks instead of pending ones.
AnyPending_failed(project_task) ==
    \E i \in 1..Len(project_task.subtasks) : project_task.subtasks[i].status = "failed"

\* The guard refusing every project that has a subtask other than completed.
AnyPending_incomplete(project_task) ==
    \E i \in 1..Len(project_task.subtasks) : project_task.subtasks[i].status # "completed"

\* finalize_project, line 273.
AnyPending(project_task) ==
    \E i \in 1..Len(project_task.subtasks) : project_task.subtasks[i].status = "pending"

\* finalize_project. zip_directory awaits nothing, so the call runs to its end
\* without a switch. zipped: the archive could be written (zip_directory turns
\* a failure into its returned text, which carries no link); removed:
\* shutil.rmtree did not raise.
finalize_project(project_id, zipped, removed) ==
    LET project_task == get_task(tasks, project_id)
    IN  /\ IF project_task = NoTask
           THEN /\ Return("finalize", "not_found", NoLink)
                /\ UNCHANGED <<tasks, folders, zips, finalized>>
           ELSE IF AlreadyComplete(project_task)
           THEN /\ Return("finalize", AlreadyCompleteResult(project_task).kind,
                          AlreadyCompleteResult(project_task).link)
                /\ UNCHANGED <<tasks, folders, zips, finalized>>
           ELSE IF AnyPending(project_task)
           THEN /\ Return("finalize", "not_all_complete", NoLink)
                /\ UNCHANGED <<tasks, folders, zips, finalized>>
           ELSE LET zip_filename == ZipName(project_task.prompt)
                    link == IF zipped THEN zip_filename ELSE NoLink
                IN  /\ zips' = IF zipped THEN zips \cup {zip_filename} ELSE zips
                    /\ tasks' = complete_project_task(tasks, project_id)
                    /\ IF removed /\ project_id \in folders
                       THEN /\ folders' = folders \ {project_id}
                            /\ finalized' = [finalized EXCEPT ![project_id] = Append(@, link)]
                            /\ Return("finalize", "finalized", link)
                       ELSE /\ UNCHANGED folders
                            /\ finalized' = [finalized EXCEPT ![project_id] = Append(@, NoLink)]
                            /\ Return("finalize", "error_finalizing", NoLink)
        /\ UNCHANGED <<calls, execLog>>

\* get_task_status: the not-found text, or the task dumped as JSON; the
\* store is only read.
get_task_status(project_id) ==
    /\ IF get_task(tasks, project_id) = NoTask
       THEN Return("status", "not_found", NoLink)
       ELSE Return("status", "snapshot", NoLink)
    /\ UNCHANGED <<tasks, folders, zips, calls, execLog, finalized>>

\* ======================================================== prompt handling
\* server.py: websocket_endpoint starts one process_single_prompt task per
\* accepted message; the tasks of a connection share its chat session.

\* Prompt tasks a connection starts where every outcome of a step is drawn
\* (SpecPrompt, SpecHang), and where the tasks run side by side on the session
\* with fewer outcomes per step (SpecSession).
MaxPrompts == 1
MaxSessionPrompts == 2

PromptIds == 1..MaxSessionPrompts

PromptTexts == {"Who are you", "hi"}

\* str.split on the prompts that occur.
split(prompt) == IF prompt = "Who are you" THEN <<"Who", "are", "you">> ELSE <<prompt>>

\* str.lower on the words that occur.
lower(word) == IF word = "Who" THEN "who" ELSE word

IDENTITY_TRIGGERS ==
    { <<"who", "are", "you">>, <<"what", "is", "tiwa">>, <<"what", "are", "you">>,
      <<"tell", "me", "about", "tiwa">>, <<"your", "name">> }

\* re.search(r"\b" + trigger + r"\b", prompt.lower().strip()): the trigger's
\* words occur in a row.
is_identity_question(prompt) ==
    LET words == split(prompt)
        normalized_prompt == [i \in 1..Len(words) |-> lower(words[i])]
    IN  \E trigger \in IDENTITY_TRIGGERS :
            \E i \in 0..(Len(words) - Len(trigger)) :
                SubSeq(normalized_prompt, i + 1, i + Len(trigger)) = trigger

\* The first five words, and "..." when there are more.
generate_topic(prompt) ==
    LET words == split(prompt)
    IN  IF Len(words) > 5 THEN Append(SubSeq(words, 1, 5), "...") ELSE words

\* The keys of server.AVAILABLE_TOOLS.
AVAILABLE_TOOLS ==
    { "tavily_web_search", "scrape_url", "generate_image", "write_file",
      "analyze_media", "generate_video", "generate_audio", "combine_media",
      "build_project", "zip_directory" }

\* Tool names a decision response can carry: a registered one, an orchestrator
\* function of tools.py that the registry leaves out, and a name no function has.
CalledNames == {"write_file", "execute_next_task", "no_such_tool"}

NoDecision == [kind |-> "none", name |-> Null]

\* What `await asyncio.to_thread(tool_decider_model.generate_content, ...)`
\* and the reading of its response come to:
\*   raise      generate_content raises
\*   text       the response has text (or no decider model is configured)
\*   unreadable .text raises ValueError and so does the read of parts[0]
\*   call       .text raises ValueError and parts[0] holds a function call
Decisions ==
    { [kind |-> "raise", name |-> Null], [kind |-> "text", name |-> Null],
      [kind |-> "unreadable", name |-> Null] }
    \cup { [kind |-> "call", name |-> n] : n \in CalledNames }

\* A value that is a str, and one that is a list of strs.
Str(text) == [str |-> text]
List(texts) == [list |-> texts]

\* What `await tool_function(**tool_args)` comes to: the tool's returned text,
\* or an exception (arguments the function does not take, or a failure in the
\* part of a tool that is outside its try block).
ToolOutcomes == {[raised |-> FALSE, text |-> "t"], [raised |-> TRUE, text |-> Null]}

\* Texts a provider adapter returns: an answer, or its error text.
GptTexts == {"x", "Error calling OpenAI API"}
DeepseekTexts == {"x", "y", "Error calling Deepseek API"}

\* Cosine similarity of two different texts, in percent, as the embedding
\* model may give it; equal texts embed equally.
Similarities == {40, 80}

\* What call_gemini_judge comes to: the model's answer, stripped (it may be
\* empty); no judge model configured; generate_content raises.
JudgeOutcomes == {"answer", "empty", "not_configured", "raise"}

VARIABLES
    chat,          \* the chat session of the connection: messages, chain_of_thought
    prompt_tasks,  \* prompt_id -> the process_single_prompt task and its locals
    sent,          \* prompt_id -> the messages sent on the websocket for it
    invoked        \* prompt_id -> what the task called: tools, providers, merge, judge

serverVars == <<chat, prompt_tasks, sent, invoked>>

VARIABLES
    merge_call     \* a verify_and_merge call made on its own: arguments and result

mergeVars == <<merge_call>>

VARIABLES
    chat_sessions, \* chat_memory.chat_sessions: chat id -> messages, chain_of_thought
    sockets,       \* chat id -> the websocket of its connection: none, open, closed
    session_tasks, \* chat id -> prompts received, tasks created and tasks running
    store_call     \* the last call made on the store or the connections

storeVars == <<chat_sessions, sockets, session_tasks, store_call>>

vars == <<taskVars, serverVars, mergeVars, storeVars>>

NoConsensus == [output |-> Null, confidence |-> 0, source_model |-> Null]

Idle ==
    [pc |-> "none", prompt |-> Null, decision |-> NoDecision, tool_result |-> Null,
     gpt_result |-> Null, deepseek_result |-> Null, consensus |-> NoConsensus]

\* A connection has been accepted and its chat session created.
InitServer ==
    /\ chat = [messages |-> <<>>, chain_of_thought |-> <<>>]
    /\ prompt_tasks = [p \in PromptIds |-> Idle]
    /\ sent = [p \in PromptIds |-> <<>>]
    /\ invoked = [p \in PromptIds |-> <<>>]

\* The result dict of verify_and_merge, not yet returned.
NoFinalData ==
    [final_output |-> Str(Null), consensus_method |-> Null, confidence |-> 0,
     source_model |-> Null]

\* The arguments of call_gemini_judge, by its parameter names; not called.
NoJudgeCall == [called |-> FALSE, gpt_output |-> <<>>, deepseek_output |-> <<>>, prompt |-> Null]

\* No verify_and_merge call has been made.
InitMerge ==
    merge_call = [pc |-> "idle", outputs |-> <<>>, evidence |-> <<>>, prompt |-> Null,
                  consensus |-> NoConsensus, judge_call |-> NoJudgeCall,
                  judge_outcome |-> Null, final_data |-> NoFinalData]

\* ========================================================== session store
\* chat_memory.py and the connections of websocket_endpoint: every accepted
\* connection gets a chat id and a session in chat_sessions, and starts a
\* prompt task per message it receives.

\* The chat ids uuid4 can hand out, and the messages one connection receives.
MaxSessions == 2
MaxStorePrompts == 1

ChatIds == 1..MaxSessions

\* No call has been made on the store.
NoStoreCall == [op |-> "none", chat_id |-> 0]

\* Nothing has been accepted: the store is empty.
InitStore ==
    /\ chat_sessions = <<>>
    /\ sockets = [c \in ChatIds |-> "none"]
    /\ session_tasks = [c \in ChatIds |-> [received |-> 0, created |-> 0, running |-> 0]]
    /\ store_call = NoStoreCall

Init == InitTasks /\ InitServer /\ InitMerge /\ InitStore

add_message_to_session_front(session, prompt_id, role, content, reasoning) ==
    [messages |-> <<[role |-> role, content |-> content, prompt_id |-> prompt_id]>>
                  \o session.messages,
     chain_of_thought |-> session.chain_of_thought]

\* chat_memory.add_message_to_session; prompt_id tags the message with the
\* task that appended it.
add_message_to_session(session, prompt_id, role, content, reasoning) ==
    [messages |-> Append(session.messages,
                         [role |-> role, content |-> content, prompt_id |-> prompt_id]),
     chain_of_thought |-> IF reasoning # Null
                          THEN Append(session.chain_of_thought, reasoning)
                          ELSE session.chain_of_thought]

send_json(prompt_id, message) == sent' = [sent EXCEPT ![prompt_id] = Append(@, message)]

Called(kind, fn, args) == [kind |-> kind, fn |-> fn, args |-> args]

Invoke(prompt_id, called) == invoked' = [invoked EXCEPT ![prompt_id] = @ \o called]

Locals(prompt_id) == prompt_tasks[prompt_id]

Goto(prompt_id, locals) == prompt_tasks' = [prompt_tasks EXCEPT ![prompt_id] = locals]

\* The task has ended; the locals the claims look back at stay.
Done(locals) ==
    [locals EXCEPT !.pc = "done", !.gpt_result = Null, !.deepseek_result = Null,
                   !.consensus = NoConsensus]

\* The except clause of process_single_prompt.
SendError(prompt_id) ==
    send_json(prompt_id,
              [type |-> "error", prompt_id |-> prompt_id, message |-> "An error occurred."])

SendFinal(prompt_id, final_source) ==
    send_json(prompt_id,
              [type |-> "final", prompt_id |-> prompt_id, final_source |-> final_source])

\* ---- consensus.py
RECURSIVE SumTo(_, _)
SumTo(f, n) == IF n = 0 THEN 0 ELSE f[n] + SumTo(f, n - 1)

\* util.pytorch_cos_sim over the embeddings of the outputs, in percent.
sim_matrix(model_outputs, similarity) ==
    [i \in 1..Len(model_outputs) |->
        [j \in 1..Len(model_outputs) |->
            IF model_outputs[i] = model_outputs[j] THEN 100 ELSE similarity]]

\* compute_consensus: outputs is the dict as its items in insertion order.
\* avg_sims keeps the row sums, so that the mean is exact: the mean of row i
\* is avg_sims[i] / n. argmax is the first row of the greatest mean.
\* confidence is the mean in whole percent.
RowSums(outputs, similarity) ==
    LET model_outputs == [i \in 1..Len(outputs) |-> outputs[i].text]
        matrix == sim_matrix(model_outputs, similarity)
    IN  [i \in 1..Len(outputs) |-> SumTo(matrix[i], Len(outputs))]

argmax(avg_sims) ==
    CHOOSE i \in DOMAIN avg_sims :
        /\ \A j \in DOMAIN avg_sims : avg_sims[j] <= avg_sims[i]
        /\ \A j \in 1..(i - 1) : avg_sims[j] < avg_sims[i]

compute_consensus(outputs, similarity) ==
    LET avg_sims == RowSums(outputs, similarity)
        top_idx == argmax(avg_sims)
    IN  [output |-> outputs[top_idx].text,
         confidence |-> avg_sims[top_idx] \div Len(outputs),
         source_model |-> outputs[top_idx].model]

\* consensus["confidence"] >= 0.85, on the exact mean.
Threshold(outputs, similarity) ==
    LET avg_sims == RowSums(outputs, similarity)
    IN  avg_sims[argmax(avg_sims)] >= 85 * Len(outputs)

\* list(outputs.values())
values(outputs) == [i \in 1..Len(outputs) |-> outputs[i].text]

model_outputs_gpt_only(locals) == << [model |-> "gpt", text |-> locals.gpt_result] >>

\* model_outputs = {"gpt": gpt_result, "deepseek": deepseek_result}
model_outputs(locals) ==
    << [model |-> "gpt", text |-> locals.gpt_result],
       [model |-> "deepseek", text |-> locals.deepseek_result] >>

\* ---- models.py
\* call_gemini_judge(gpt_output, deepseek_output, prompt) as verify_and_merge
\* calls it: gpt_output is list(outputs.values()), deepseek_output the evidence.
\* On an exception it returns gpt_output, which is that list.
judge_result(outcome, gpt_output) ==
    CASE outcome = "not_configured" -> Str("Gemini API key not set.")
      [] outcome = "answer" -> Str("z")
      [] outcome = "empty" -> Str("")
      [] outcome = "raise" -> List(gpt_output)

\* ---- server.py
\* websocket_endpoint: a message with a prompt and a prompt_id starts a task.
\* Prompt ids are handed out in order.
websocket_endpoint(prompt_id, prompt) ==
    /\ Locals(prompt_id).pc = "none"
    /\ \A q \in 1..(prompt_id - 1) : Locals(q).pc # "none"
    /\ prompt # ""
    /\ Goto(prompt_id, [Idle EXCEPT !.pc = "created", !.prompt = prompt])
    /\ UNCHANGED <<chat, sent, invoked>>

\* process_single_prompt up to the decision call: an identity question
\* returns at once; every other prompt is put in the session, announced with
\* "thinking", and handed to the decision model.
process_single_prompt(prompt_id) ==
    LET locals == Locals(prompt_id)
    IN  /\ locals.pc = "created"
        /\ IF is_identity_question(locals.prompt)
           THEN /\ Goto(prompt_id, Done(locals))
                /\ UNCHANGED <<chat, sent, invoked>>
           ELSE /\ chat' = add_message_to_session(chat, prompt_id, "user",
                                                  Str(locals.prompt), Null)
                /\ send_json(prompt_id, [type |-> "thinking", prompt_id |-> prompt_id,
                                         topic |-> generate_topic(locals.prompt)])
                /\ Goto(prompt_id, [locals EXCEPT !.pc = "deciding"])
                /\ UNCHANGED invoked

\* if function_call: ... if tool_name in AVAILABLE_TOOLS
ToolChosen_any(decision) == decision.kind = "call"

ToolChosen(decision) == decision.kind = "call" /\ decision.name \in AVAILABLE_TOOLS

\* The decision call returns. A raise of generate_content is outside the
\* inner try and ends in the except clause of the function. A registered
\* tool is awaited; everything else starts the two provider calls.
decide(prompt_id, decision) ==
    LET locals == Locals(prompt_id)
    IN  /\ locals.pc = "deciding"
        /\ IF decision.kind = "raise"
           THEN /\ SendError(prompt_id)
                /\ Goto(prompt_id, Done([locals EXCEPT !.decision = decision]))
                /\ UNCHANGED <<chat, invoked>>
           ELSE IF ToolChosen(decision)
           THEN /\ Invoke(prompt_id, <<Called("tool", decision.name, <<>>)>>)
                /\ Goto(prompt_id, [locals EXCEPT !.pc = "tool", !.decision = decision])
                /\ UNCHANGED <<chat, sent>>
           ELSE /\ Invoke(prompt_id, << Called("provider", "call_gpt", <<>>),
                                        Called("provider", "call_deepseek", <<>>) >>)
                /\ Goto(prompt_id, [locals EXCEPT !.pc = "gather", !.decision = decision])
                /\ UNCHANGED <<chat, sent>>

\* What the task sends as final_source after a tool.
ToolFinal_fixed(tool_result) == Str("x")

ToolFinal(tool_result) == Str(tool_result)

\* `await tool_function(**tool_args)` returns or raises.
tool_function(prompt_id, outcome) ==
    LET locals == Locals(prompt_id)
        tool_name == locals.decision.name
    IN  /\ locals.pc = "tool"
        /\ IF outcome.raised
           THEN /\ SendError(prompt_id)
                /\ Goto(prompt_id, Done(locals))
                /\ UNCHANGED <<chat, invoked>>
           ELSE /\ chat' = add_message_to_session(chat, prompt_id, "assistant",
                                Str(outcome.text), <<"Direct result from", tool_name>>)
                /\ SendFinal(prompt_id, ToolFinal(outcome.text))
                /\ Goto(prompt_id, Done([locals EXCEPT !.tool_result = outcome.text]))
                /\ UNCHANGED invoked

\* call_gpt returns its answer or its error text; it raises nothing.
call_gpt(prompt_id, text) ==
    LET locals == Locals(prompt_id)
    IN  /\ locals.pc = "gather"
        /\ locals.gpt_result = Null
        /\ Goto(prompt_id, [locals EXCEPT !.gpt_result = text])
        /\ UNCHANGED <<chat, sent, invoked>>

\* call_deepseek, likewise.
call_deepseek(prompt_id, text) ==
    LET locals == Locals(prompt_id)
    IN  /\ locals.pc = "gather"
        /\ locals.deepseek_result = Null
        /\ Goto(prompt_id, [locals EXCEPT !.deepseek_result = text])
        /\ UNCHANGED <<chat, sent, invoked>>

\* add_message_to_session and send_json at the end of the consensus path.
Answer(prompt_id, final_data) ==
    /\ chat' = add_message_to_session(chat, prompt_id, "assistant", final_data.final_output,
                                      <<"Final output after", final_data.consensus_method>>)
    /\ SendFinal(prompt_id, final_data.final_output)

\* The dict verify_and_merge returns when the consensus is strong enough.
agreement(consensus) ==
    [final_output |-> Str(consensus.output),
     consensus_method |-> "semantic_agreement",
     confidence |-> consensus.confidence,
     source_model |-> consensus.source_model]

\* The dict verify_and_merge returns after the judge.
arbitration(consensus, final_answer) ==
    [final_output |-> final_answer,
     consensus_method |-> "gemini_judge_arbitration",
     confidence |-> consensus.confidence,
     source_model |-> consensus.source_model]

\* asyncio.gather has both results; verify_and_merge runs compute_consensus
\* and, under the threshold, starts the judge.
verify_and_merge(prompt_id, similarity) ==
    LET locals == Locals(prompt_id)
        outputs == model_outputs(locals)
        evidence == <<locals.deepseek_result>>
        consensus == compute_consensus(outputs, similarity)
    IN  /\ locals.pc = "gather"
        /\ locals.gpt_result # Null
        /\ locals.deepseek_result # Null
        /\ IF Threshold(outputs, similarity)
           THEN /\ Invoke(prompt_id, <<Called("merge", "verify_and_merge",
                                              <<values(outputs), evidence>>)>>)
                /\ Answer(prompt_id, agreement(consensus))
                /\ Goto(prompt_id, Done(locals))
           ELSE /\ Invoke(prompt_id,
                          << Called("merge", "verify_and_merge",
                                    <<values(outputs), evidence>>),
                             Called("judge", "call_gemini_judge",
                                    <<values(outputs), evidence>>) >>)
                /\ Goto(prompt_id, [locals EXCEPT !.pc = "judge", !.consensus = consensus])
                /\ UNCHANGED <<chat, sent>>

\* call_gemini_judge returns and verify_and_merge with it.
call_gemini_judge(prompt_id, outcome) ==
    LET locals == Locals(prompt_id)
        final_answer == judge_result(outcome, values(model_outputs(locals)))
    IN  /\ locals.pc = "judge"
        /\ Answer(prompt_id, arbitration(locals.consensus, final_answer))
        /\ Goto(prompt_id, Done(locals))
        /\ UNCHANGED invoked

\* ---- verify_and_merge called on its own
\* Provider outputs one verify_and_merge call gets.
MaxOutputs == 2

ModelNames == {"gpt", "deepseek", "gemini"}

OutputTexts == {"x", "y"}

\* The outputs dicts of 1..MaxOutputs providers, as their items in insertion
\* order: the keys of a dict differ.
RECURSIVE OutputsOfLen(_)
OutputsOfLen(n) ==
    IF n = 0 THEN {<<>>}
    ELSE { Append(outputs, [model |-> m, text |-> t]) :
             outputs \in OutputsOfLen(n - 1),
             m \in ModelNames, t \in OutputTexts }

DistinctKeys(outputs) ==
    \A i, j \in 1..Len(outputs) : i # j => outputs[i].model # outputs[j].model

OutputDicts ==
    UNION { {o \in OutputsOfLen(n) : DistinctKeys(o)} : n \in 1..MaxOutputs }

EvidenceLists == {<<>>, <<"e">>}

\* verify_and_merge(outputs, evidence, prompt) up to its return or to the
\* await of the judge.
verify_and_merge_call(outputs, evidence, similarity) ==
    LET consensus == compute_consensus(outputs, similarity)
        call == [merge_call EXCEPT !.outputs = outputs, !.evidence = evidence,
                                   !.prompt = "p", !.consensus = consensus]
    IN  /\ merge_call.pc = "idle"
        /\ IF Threshold(outputs, similarity)
           THEN merge_call' = [call EXCEPT !.pc = "returned",
                                           !.final_data = agreement(consensus)]
           ELSE merge_call' = [call EXCEPT !.pc = "judge",
                                           !.judge_call = [called |-> TRUE,
                                                           gpt_output |-> values(outputs),
                                                           deepseek_output |-> evidence,
                                                           prompt |-> "p"]]

\* call_gemini_judge returns to verify_and_merge, which returns.
verify_and_merge_return(outcome) ==
    LET final_answer == judge_result(outcome, merge_call.judge_call.gpt_output)
    IN  /\ merge_call.pc = "judge"
        /\ merge_call' = [merge_call EXCEPT
                            !.pc = "returned", !.judge_outcome = outcome,
                            !.final_data = arbitration(merge_call.consensus, final_answer)]

NextMerge ==
    \/ UNCHANGED <<taskVars, serverVars, storeVars>>
            /\ \E outputs \in OutputDicts, evidence \in EvidenceLists,
                  similarity \in Similarities :
                    verify_and_merge_call(outputs, evidence, similarity)
    \/ UNCHANGED <<taskVars, serverVars, storeVars>>
            /\ \E outcome \in JudgeOutcomes : verify_and_merge_return(outcome)

SpecMerge == Init /\ [][NextMerge]_vars

\* The prompt tasks of one connection, in any interleaving.
NextPrompt ==
    \/ UNCHANGED <<taskVars, mergeVars, storeVars>> /\ \E prompt_id \in 1..MaxPrompts, prompt \in PromptTexts :
            websocket_endpoint(prompt_id, prompt)
    \/ UNCHANGED <<taskVars, mergeVars, storeVars>> /\ \E prompt_id \in PromptIds : process_single_prompt(prompt_id)
    \/ UNCHANGED <<taskVars, mergeVars, storeVars>> /\ \E prompt_id \in PromptIds, decision \in Decisions :
            decide(prompt_id, decision)
    \/ UNCHANGED <<taskVars, mergeVars, storeVars>> /\ \E prompt_id \in PromptIds, outcome \in ToolOutcomes :
            tool_function(prompt_id, outcome)
    \/ UNCHANGED <<taskVars, mergeVars, storeVars>> /\ \E prompt_id \in PromptIds, text \in GptTexts :
            call_gpt(prompt_id, text)
    \/ UNCHANGED <<taskVars, mergeVars, storeVars>> /\ \E prompt_id \in PromptIds, text \in DeepseekTexts :
            call_deepseek(prompt_id, text)
    \/ UNCHANGED <<taskVars, mergeVars, storeVars>> /\ \E prompt_id \in PromptIds, similarity \in Similarities :
            verify_and_merge(prompt_id, similarity)
    \/ UNCHANGED <<taskVars, mergeVars, storeVars>> /\ \E prompt_id \in PromptIds, outcome \in JudgeOutcomes :
            call_gemini_judge(prompt_id, outcome)

SpecPrompt == Init /\ [][NextPrompt]_vars

\* The prompt tasks of one connection side by side, with one registered tool,
\* one answer of call_gpt, agreeing and disagreeing answers of call_deepseek,
\* and a judge that answers.
SessionDecisions == {[kind |-> "text", name |-> Null], [kind |-> "call", name |-> "write_file"]}

NextSession ==
    \/ UNCHANGED <<taskVars, mergeVars, storeVars>> /\ \E prompt_id \in PromptIds, prompt \in PromptTexts :
            websocket_endpoint(prompt_id, prompt)
    \/ UNCHANGED <<taskVars, mergeVars, storeVars>> /\ \E prompt_id \in PromptIds : process_single_prompt(prompt_id)
    \/ UNCHANGED <<taskVars, mergeVars, storeVars>> /\ \E prompt_id \in PromptIds, decision \in SessionDecisions :
            decide(prompt_id, decision)
    \/ UNCHANGED <<taskVars, mergeVars, storeVars>> /\ \E prompt_id \in PromptIds, outcome \in ToolOutcomes :
            tool_function(prompt_id, outcome)
    \/ UNCHANGED <<taskVars, mergeVars, storeVars>> /\ \E prompt_id \in PromptIds : call_gpt(prompt_id, "x")
    \/ UNCHANGED <<taskVars, mergeVars, storeVars>> /\ \E prompt_id \in PromptIds, text \in {"x", "y"} :
            call_deepseek(prompt_id, text)
    \/ UNCHANGED <<taskVars, mergeVars, storeVars>> /\ \E prompt_id \in PromptIds : verify_and_merge(prompt_id, 40)
    \/ UNCHANGED <<taskVars, mergeVars, storeVars>> /\ \E prompt_id \in PromptIds :
            call_gemini_judge(prompt_id, "answer")

SpecSession == Init /\ [][NextSession]_vars

\* The steps of a prompt task that are certain to come: the event loop runs a
\* task that is ready, and the decision model, the tool, call_gpt and the
\* judge answer. call_deepseek is left out: its API call may never return,
\* and neither the adapter nor asyncio.gather has a timeout.
Scheduled(prompt_id) ==
    /\ UNCHANGED <<taskVars, mergeVars, storeVars>>
    /\ \/ process_single_prompt(prompt_id)
       \/ \E decision \in Decisions : decide(prompt_id, decision)
       \/ \E outcome \in ToolOutcomes : tool_function(prompt_id, outcome)
       \/ \E text \in GptTexts : call_gpt(prompt_id, text)
       \/ \E similarity \in Similarities : verify_and_merge(prompt_id, similarity)
       \/ \E outcome \in JudgeOutcomes : call_gemini_judge(prompt_id, outcome)

\* The prompt tasks where a Deepseek call may hang.
SpecHang ==
    Init /\ [][NextPrompt]_vars /\ \A prompt_id \in PromptIds : WF_vars(Scheduled(prompt_id))

\* Calls on the task store in any interleaving: execute_next_task calls overlap.
Next ==
    \/ UNCHANGED <<serverVars, mergeVars, storeVars>> /\ \E prompt \in Prompts : CreateProject(prompt)
    \/ UNCHANGED <<serverVars, mergeVars, storeVars>> /\ \E project_id \in ProjectIds, plan \in Plans1(PlainSpecs) :
            Plan(project_id, plan, MaxSubtasks)
    \/ UNCHANGED <<serverVars, mergeVars, storeVars>> /\ \E project_id \in ProjectIds :
            execute_next_task(project_id, MaxExec)
    \/ UNCHANGED <<serverVars, mergeVars, storeVars>> /\ \E call \in BagToSet(calls), moved \in BOOLEAN :
            execute_next_task_resume(call, moved)
    \/ UNCHANGED <<serverVars, mergeVars, storeVars>> /\ \E project_id \in ProjectIds, zipped, removed \in BOOLEAN :
            finalize_project(project_id, zipped, removed)

Spec == Init /\ [][Next]_vars

\* One caller: a call is made only when the call before it has returned.
NextSeq ==
    \/ UNCHANGED <<serverVars, mergeVars, storeVars>> /\ AllIdle /\ \E prompt \in Prompts : CreateProject(prompt)
    \/ UNCHANGED <<serverVars, mergeVars, storeVars>> /\ AllIdle
            /\ \E project_id \in ProjectIds, plan \in Plans2(PlainSpecs) :
                    Plan(project_id, plan, MaxSeqSubtasks)
    \/ UNCHANGED <<serverVars, mergeVars, storeVars>> /\ AllIdle
            /\ \E project_id \in ProjectIds : execute_next_task(project_id, MaxSeqSubtasks + 1)
    \/ UNCHANGED <<serverVars, mergeVars, storeVars>> /\ \E call \in BagToSet(calls), moved \in BOOLEAN :
            execute_next_task_resume(call, moved)
    \/ UNCHANGED <<serverVars, mergeVars, storeVars>> /\ AllIdle
            /\ \E project_id \in ProjectIds, zipped, removed \in BOOLEAN :
                    finalize_project(project_id, zipped, removed)

SpecSeq == Init /\ [][NextSeq]_vars

\* One caller using the four orchestrator operations, whose plans may carry
\* any key, the keys add_subtasks sets itself included.
NextKeys ==
    \/ UNCHANGED <<serverVars, mergeVars, storeVars>> /\ AllIdle /\ \E prompt \in Prompts : CreateProject(prompt)
    \/ UNCHANGED <<serverVars, mergeVars, storeVars>> /\ AllIdle
            /\ \E project_id \in ProjectIds, plan \in Plans1(SubtaskSpecs) :
                    Plan(project_id, plan, MaxKeySubtasks)
    \/ UNCHANGED <<serverVars, mergeVars, storeVars>> /\ AllIdle
            /\ \E project_id \in ProjectIds : execute_next_task(project_id, MaxKeySubtasks + 1)
    \/ UNCHANGED <<serverVars, mergeVars, storeVars>> /\ \E call \in BagToSet(calls), moved \in BOOLEAN :
            execute_next_task_resume(call, moved)
    \/ UNCHANGED <<serverVars, mergeVars, storeVars>> /\ AllIdle
            /\ \E project_id \in ProjectIds, zipped, removed \in BOOLEAN :
                    finalize_project(project_id, zipped, removed)
    \/ UNCHANGED <<serverVars, mergeVars, storeVars>> /\ AllIdle
            /\ \E project_id \in ProjectIds : get_task_status(project_id)

SpecKeys == Init /\ [][NextKeys]_vars

\* ---- chat_memory.py, and websocket_endpoint as the owner of a session
StoreCall(op, chat_id) == store_call' = [op |-> op, chat_id |-> chat_id]

\* An assignment of an empty session whatever the store holds for the id.
create_chat_session_reset(sessions, chat_id) ==
    [c \in DOMAIN sessions \cup {chat_id} |->
        IF c = chat_id THEN [messages |-> <<>>, chain_of_thought |-> <<>>]
        ELSE sessions[c]]

\* chat_memory.create_chat_session: only an id that is not in the store gets
\* an empty session.
create_chat_session(sessions, chat_id) ==
    IF chat_id \in DOMAIN sessions THEN sessions
    ELSE [c \in DOMAIN sessions \cup {chat_id} |->
            IF c = chat_id THEN [messages |-> <<>>, chain_of_thought |-> <<>>]
            ELSE sessions[c]]

\* get_chat_session, then add_message_to_session on the session found; a
\* chat id without a session is passed over. The message is tagged with the
\* chat id of the task that appends it.
add_message(sessions, chat_id, role, content, reasoning) ==
    IF chat_id \in DOMAIN sessions
    THEN [sessions EXCEPT ![chat_id] = add_message_to_session(@, chat_id, role, content, reasoning)]
    ELSE sessions

\* uuid4 for a connection: an id no session has.
NewChatId(sessions) ==
    CHOOSE c \in ChatIds \ DOMAIN sessions : \A d \in ChatIds \ DOMAIN sessions : c <= d

\* websocket_endpoint, lines 170-172: accept, a new chat id, its session.
accept ==
    /\ ChatIds \ DOMAIN chat_sessions # {}
    /\ LET chat_id == NewChatId(chat_sessions)
       IN  /\ chat_sessions' = create_chat_session(chat_sessions, chat_id)
           /\ sockets' = [sockets EXCEPT ![chat_id] = "open"]
           /\ StoreCall("accept", chat_id)
    /\ UNCHANGED session_tasks

\* create_chat_session called with an id that may be in the store already.
create_chat_session_call(chat_id) ==
    /\ chat_sessions' = create_chat_session(chat_sessions, chat_id)
    /\ StoreCall("create_chat_session", chat_id)
    /\ UNCHANGED <<sockets, session_tasks>>

\* websocket_endpoint, lines 175-181: a message with prompt and prompt_id
\* arrives and asyncio.create_task starts a task for it; no reference to the
\* task is kept.
receive_json(chat_id) ==
    /\ sockets[chat_id] = "open"
    /\ session_tasks[chat_id].received < MaxStorePrompts
    /\ session_tasks' = [session_tasks EXCEPT ![chat_id].received = @ + 1,
                                              ![chat_id].created = @ + 1]
    /\ StoreCall("receive_json", chat_id)
    /\ UNCHANGED <<chat_sessions, sockets>>

\* websocket_endpoint, lines 182-183: receive_json raises WebSocketDisconnect;
\* the handler prints and returns.
WebSocketDisconnect(chat_id) ==
    /\ sockets[chat_id] = "open"
    /\ sockets' = [sockets EXCEPT ![chat_id] = "closed"]
    /\ StoreCall("WebSocketDisconnect", chat_id)
    /\ UNCHANGED <<chat_sessions, session_tasks>>

\* A prompt task of the connection runs to its first await: the user message
\* goes into the session, then "thinking" is sent. On a closed socket the
\* send may raise (raised), which ends the task in its except clause.
prompt_task_start(chat_id, raised) ==
    /\ session_tasks[chat_id].created > 0
    /\ raised => sockets[chat_id] = "closed"
    /\ chat_sessions' = add_message(chat_sessions, chat_id, "user", Str("hi"), Null)
    /\ session_tasks' = [session_tasks EXCEPT ![chat_id].created = @ - 1,
                                              ![chat_id].running = IF raised THEN @ ELSE @ + 1]
    /\ StoreCall("add_message_to_session", chat_id)
    /\ UNCHANGED sockets

\* The task has its answer: the assistant message and its reasoning go into
\* the session, the final message is sent (or the send raises), the task ends.
prompt_task_finish(chat_id) ==
    /\ session_tasks[chat_id].running > 0
    /\ chat_sessions' = add_message(chat_sessions, chat_id, "assistant", Str("x"),
                                    <<"Final output after", "consensus">>)
    /\ session_tasks' = [session_tasks EXCEPT ![chat_id].running = @ - 1]
    /\ StoreCall("add_message_to_session", chat_id)
    /\ UNCHANGED sockets

\* The steps of the prompt tasks of a connection.
PromptTaskStep(chat_id) ==
    /\ UNCHANGED <<taskVars, serverVars, mergeVars>>
    /\ \/ \E raised \in BOOLEAN : prompt_task_start(chat_id, raised)
       \/ prompt_task_finish(chat_id)

NextStore ==
    \/ UNCHANGED <<taskVars, serverVars, mergeVars>> /\ accept
    \/ UNCHANGED <<taskVars, serverVars, mergeVars>>
            /\ \E chat_id \in ChatIds : create_chat_session_call(chat_id)
    \/ UNCHANGED <<taskVars, serverVars, mergeVars>>
            /\ \E chat_id \in ChatIds : receive_json(chat_id)
    \/ UNCHANGED <<taskVars, serverVars, mergeVars>>
            /\ \E chat_id \in ChatIds : WebSocketDisconnect(chat_id)
    \/ UNCHANGED <<taskVars, serverVars, mergeVars>>
            /\ \E chat_id \in ChatIds, raised \in BOOLEAN : prompt_task_start(chat_id, raised)
    \/ UNCHANGED <<taskVars, serverVars, mergeVars>>
            /\ \E chat_id \in ChatIds : prompt_task_finish(chat_id)

SpecStore == Init /\ [][NextStore]_vars

\* The connections where the event loop runs every prompt task that is ready
\* and every provider answers.
SpecDisconnect ==
    Init /\ [][NextStore]_vars /\ \A chat_id \in ChatIds : WF_vars(PromptTaskStep(chat_id))

\* ------------------------------------------------- task orchestrator claims
Pending(p) == {i \in 1..Len(tasks[p].subtasks) : tasks[p].subtasks[i].status = "pending"}

Settled(p) == {i \in 1..Len(tasks[p].subtasks) : tasks[p].subtasks[i].status # "pending"}

InFlight(p) == {call \in BagToSet(calls) : call.project_id = p}

StoreUnchanged == UNCHANGED <<tasks, folders, zips, calls, execLog, finalized>>

\* C1: with calls made one after the other, the subtasks of a project are
\* started in list order, one per call: the k-th start is position k, and
\* the settled subtasks are exactly the positions whose call has returned.
\* A call on a project that is not completed and has nothing pending returns
\* the ready-to-finalize text and changes nothing.
C1_InOrder ==
    \A p \in DOMAIN tasks :
        LET n == Len(execLog[p])
            returned == IF InFlight(p) = {} THEN n ELSE n - 1
        IN  /\ \A k \in 1..n : execLog[p][k] = k
            /\ Settled(p) = 1..returned

C1_Sentinel ==
    \A p \in DOMAIN tasks :
        (/\ execute_next_task(p, MaxSeqSubtasks + 1)
         /\ Pending(p) = {}
         /\ tasks[p].status # "completed")
        => /\ ret' = [op |-> "execute", kind |-> "ready_to_finalize", link |-> NoLink]
           /\ StoreUnchanged

C1_Fifo == []C1_InOrder /\ [][C1_Sentinel]_vars

C1_Witness ==
    \E p \in DOMAIN tasks :
        /\ Len(tasks[p].subtasks) = 3
        /\ execLog[p] = <<1, 2, 3>>
        /\ ret = [op |-> "execute", kind |-> "ready_to_finalize", link |-> NoLink]

\* C2: no subtask has its action started more than once, also when
\* execute_next_task calls overlap.
C2_AtMostOnce ==
    \A p \in ProjectIds :
        \A j, k \in 1..Len(execLog[p]) : j # k => execLog[p][j] # execLog[p][k]

\* C3: finalize_project on a project that is still pending (no completed_at)
\* and has a pending subtask returns the not-all-complete error and leaves
\* project, subtasks, archive directory and workspace as they were.
C3_Refused ==
    \A p \in DOMAIN tasks, zipped, removed \in BOOLEAN :
        (/\ finalize_project(p, zipped, removed)
         /\ tasks[p].status = "pending"
         /\ tasks[p].completed_at = Null
         /\ Pending(p) # {})
        => /\ ret' = [op |-> "finalize", kind |-> "not_all_complete", link |-> NoLink]
           /\ StoreUnchanged

C3_FinalizePrecondition == [][C3_Refused]_vars

C3_Witness ==
    /\ ret = [op |-> "finalize", kind |-> "not_all_complete", link |-> NoLink]
    /\ \E p \in DOMAIN tasks :
        /\ Pending(p) # {}
        /\ tasks[p].status = "pending"
        /\ tasks[p].completed_at = Null
        /\ p \in folders
        /\ finalized[p] = <<>>

\* C4: a project is completed by at most one finalize_project call, which
\* is the only step that writes an archive, and it is completed exactly
\* when one call did so; every call on a completed project returns the
\* already-complete text, which is no error, and changes nothing.
C4_Once ==
    \A p \in ProjectIds :
        /\ Len(finalized[p]) <= 1
        /\ p \in DOMAIN tasks => (tasks[p].status = "completed" <=> Len(finalized[p]) = 1)

C4_Transition ==
    /\ \A p \in ProjectIds :
        finalized'[p] # finalized[p] =>
            /\ p \in DOMAIN tasks
            /\ tasks[p].status = "pending"
            /\ tasks'[p].status = "completed"
    /\ zips' # zips => \E p \in ProjectIds : finalized'[p] # finalized[p]

C4_NoOp ==
    \A p \in DOMAIN tasks, zipped, removed \in BOOLEAN :
        (finalize_project(p, zipped, removed) /\ tasks[p].status = "completed")
        => /\ ret'.op = "finalize" /\ ret'.kind = "already_complete"
           /\ StoreUnchanged

C4_FinalizeOnce == []C4_Once /\ [][C4_Transition /\ C4_NoOp]_vars

C4_Witness ==
    /\ ret.op = "finalize" /\ ret.kind = "already_complete"
    /\ \E p \in DOMAIN tasks : tasks[p].status = "completed" /\ Len(finalized[p]) = 1

\* C5 as claimed: a finalize_project call on a project whose completing call
\* returned a download link returns that link again.
C5_SameLink ==
    [][\A p \in DOMAIN tasks, zipped, removed \in BOOLEAN :
        (/\ finalize_project(p, zipped, removed)
         /\ finalized[p] # <<>>
         /\ finalized[p][1] # NoLink)
        => ret'.link = finalized[p][1]]_vars

\* C5 as amended: a finalize_project call on a completed project returns the
\* already-complete text, which carries no link; a link is returned only by
\* the call that completes the project.
C5_Repeat ==
    \A p \in DOMAIN tasks, zipped, removed \in BOOLEAN :
        (finalize_project(p, zipped, removed) /\ finalized[p] # <<>>)
        => ret' = [op |-> "finalize", kind |-> "already_complete", link |-> NoLink]

C5_LinkOnlyOnce ==
    (ret' # ret /\ ret'.link # NoLink)
    => \E p \in ProjectIds : finalized[p] = <<>> /\ finalized'[p] = <<ret'.link>>

C5_NoLinkAgain == [][C5_Repeat /\ C5_LinkOnlyOnce]_vars

C5_Witness ==
    /\ ret = [op |-> "finalize", kind |-> "already_complete", link |-> NoLink]
    /\ \E p \in DOMAIN tasks : finalized[p] = <<ZipName(tasks[p].prompt)>>

\* C6: a subtask that is completed or failed keeps its status and its result
\* for ever, and a pending one only becomes completed or failed.
C6_Terminal ==
    [][\A p \in DOMAIN tasks : \A i \in 1..Len(tasks[p].subtasks) :
        LET old == tasks[p].subtasks[i]
            new == tasks'[p].subtasks[i]
        IN  /\ old.status # "pending" =>
                new.status = old.status /\ new.result = old.result
            /\ new.status \in {old.status, "completed", "failed"}]_vars


\* ---------------------------------------------------- prompt handling claims
Finals(p) == {i \in 1..Len(sent[p]) : sent[p][i].type = "final"}

Errors(p) == {i \in 1..Len(sent[p]) : sent[p][i].type = "error"}

Tools(p) == {i \in 1..Len(invoked[p]) : invoked[p][i].kind = "tool"}

Providers(p) == {i \in 1..Len(invoked[p]) : invoked[p][i].kind = "provider"}

Merges(p) == {i \in 1..Len(invoked[p]) : invoked[p][i].kind \in {"merge", "judge"}}

RegisteredCall(p) ==
    /\ prompt_tasks[p].decision.kind = "call"
    /\ prompt_tasks[p].decision.name \in AVAILABLE_TOOLS

UnregisteredCall(p) ==
    /\ prompt_tasks[p].decision.kind = "call"
    /\ prompt_tasks[p].decision.name \notin AVAILABLE_TOOLS

\* C7: when the decision model returned a call of a registered tool, the
\* prompt task runs exactly one tool, the named one, and calls no provider
\* adapter, verify_and_merge or judge; once the tool has returned, the
\* prompt has exactly one final message and no error message, and the final
\* message's content is the value the tool returned.
C7_ToolPrecedence ==
    \A p \in PromptIds :
        RegisteredCall(p) =>
            /\ Cardinality(Tools(p)) = 1
            /\ invoked[p][1].fn = prompt_tasks[p].decision.name
            /\ Providers(p) = {}
            /\ Merges(p) = {}
            /\ \A i \in Finals(p) :
                    /\ prompt_tasks[p].tool_result # Null
                    /\ sent[p][i].final_source = Str(prompt_tasks[p].tool_result)
            /\ prompt_tasks[p].tool_result # Null =>
                    Cardinality(Finals(p)) = 1 /\ Errors(p) = {}

C7_Witness ==
    \E p \in PromptIds :
        /\ RegisteredCall(p)
        /\ prompt_tasks[p].pc = "done"
        /\ prompt_tasks[p].tool_result = "t"
        /\ \E i \in Finals(p) : sent[p][i].final_source = Str("t")

\* C8: when the decision model named a tool that is not a key of
\* AVAILABLE_TOOLS, the prompt task runs no tool function; it calls both
\* provider adapters, and when it has ended verify_and_merge has run and the
\* prompt has exactly one final message, sent after the merge, and no error.
C8_UnknownToolFallsThrough ==
    \A p \in PromptIds :
        UnregisteredCall(p) =>
            /\ Tools(p) = {}
            /\ Len(invoked[p]) >= 2
            /\ invoked[p][1].fn = "call_gpt"
            /\ invoked[p][2].fn = "call_deepseek"
            /\ Finals(p) # {} => Merges(p) # {}
            /\ prompt_tasks[p].pc = "done" =>
                    Cardinality(Finals(p)) = 1 /\ Errors(p) = {}

C8_Witness ==
    \E p \in PromptIds :
        /\ UnregisteredCall(p)
        /\ prompt_tasks[p].pc = "done"
        /\ Finals(p) # {}
        /\ \E i \in Merges(p) : invoked[p][i].fn = "verify_and_merge"

\* C9: when the decision call raised, or its response could not be read as
\* a tool call, the prompt task runs the consensus path and ends with a final
\* message and no error message.
C9_DecisionFailureNonFatal ==
    \A p \in PromptIds :
        (/\ prompt_tasks[p].pc = "done"
         /\ prompt_tasks[p].decision.kind \in {"raise", "unreadable"})
        => /\ Merges(p) # {}
           /\ Cardinality(Finals(p)) = 1
           /\ Errors(p) = {}

\* C10: a prompt task never sends more than one terminal message (final or
\* error) for its prompt_id, and when it has ended it has sent exactly one.
C10_OneTerminalMessage ==
    \A p \in PromptIds :
        /\ Cardinality(Finals(p) \cup Errors(p)) <= 1
        /\ prompt_tasks[p].pc = "done" => Cardinality(Finals(p) \cup Errors(p)) = 1

\* The session holds an assistant message of the prompt with this content.
Recorded(p, content) ==
    \E i \in 1..Len(chat.messages) :
        chat.messages[i] = [role |-> "assistant", content |-> content, prompt_id |-> p]

\* C11: when the decision named a registered tool and the prompt task has
\* ended, whether the tool returned or raised, the prompt has one final
\* message and no error message, and the session holds an assistant message
\* of the prompt with the content of that final message.
C11_ToolFailureSurfaced ==
    \A p \in PromptIds :
        (RegisteredCall(p) /\ prompt_tasks[p].pc = "done")
        => /\ Errors(p) = {}
           /\ Cardinality(Finals(p)) = 1
           /\ \A i \in Finals(p) : Recorded(p, sent[p][i].final_source)

\* The orchestrator functions of tools.py.
OrchestratorTools == {"build_project", "execute_next_task", "get_task_status", "finalize_project"}

\* C20: when the decision model named an orchestrator function, the prompt
\* task runs that function as its tool and calls no provider adapter.
C20_OrchestratorDispatched ==
    \A p \in PromptIds :
        (/\ prompt_tasks[p].decision.kind = "call"
         /\ prompt_tasks[p].decision.name \in OrchestratorTools)
        => /\ Providers(p) = {}
           /\ \E i \in Tools(p) : invoked[p][i].fn = prompt_tasks[p].decision.name

\* ------------------------------------------------------ consensus claims
\* The verify_and_merge call has returned.
MergeReturned == merge_call.pc = "returned"

\* The agreement of the outputs, in percent, is under the 0.85 of the threshold.
Disagreement == merge_call.consensus.confidence < 85

\* C12: when a verify_and_merge call has returned and the agreement of its
\* outputs was under the threshold, the judge was called with the list of all
\* outputs, the evidence and the prompt, the result's consensus_method is
\* judge_arbitration and, when the judge answered, final_output is its
\* answer; when the agreement reached the threshold the judge was not called.
C12_JudgeArbitration ==
    MergeReturned =>
        IF Disagreement
        THEN /\ merge_call.judge_call =
                    [called |-> TRUE, gpt_output |-> values(merge_call.outputs),
                     deepseek_output |-> merge_call.evidence, prompt |-> merge_call.prompt]
             /\ merge_call.final_data.consensus_method = "judge_arbitration"
             /\ merge_call.judge_outcome = "answer" =>
                    merge_call.final_data.final_output = Str("z")
        ELSE ~merge_call.judge_call.called

\* C13: when the judge raised, was not configured or returned an empty text,
\* the final_output of the verify_and_merge call is the output text of one
\* of the providers (the designated primary one).
C13_JudgeFallback ==
    (MergeReturned /\ merge_call.judge_outcome \in {"raise", "not_configured", "empty"})
    => \E i \in 1..Len(merge_call.outputs) :
            merge_call.final_data.final_output = Str(merge_call.outputs[i].text)

\* C14: when the outputs of two or more providers are all the same text,
\* verify_and_merge returns that text with consensus_method
\* unanimous_agreement and confidence 1.0, and the judge is not called.
C14_Unanimous ==
    (/\ MergeReturned
     /\ Len(merge_call.outputs) >= 2
     /\ \A i \in 1..Len(merge_call.outputs) :
            merge_call.outputs[i].text = merge_call.outputs[1].text)
    => /\ merge_call.final_data.final_output = Str(merge_call.outputs[1].text)
       /\ merge_call.final_data.consensus_method = "unanimous_agreement"
       /\ merge_call.final_data.confidence = 100
       /\ ~merge_call.judge_call.called

\* C15: when verify_and_merge got exactly one provider output, it returns
\* that output with confidence 1.0 and consensus_method single_source.
C15_SingleSource ==
    (MergeReturned /\ Len(merge_call.outputs) = 1)
    => /\ merge_call.final_data.final_output = Str(merge_call.outputs[1].text)
       /\ merge_call.final_data.confidence = 100
       /\ merge_call.final_data.consensus_method = "single_source"
       /\ ~merge_call.judge_call.called

\* --------------------------------------------------- provider path claims
\* The error texts call_gpt and call_deepseek return for a failed API call.
ErrorTexts == {"Error calling OpenAI API", "Error calling Deepseek API"}

\* The verify_and_merge calls of a prompt task.
MergeCalls(p) == {i \in 1..Len(invoked[p]) : invoked[p][i].kind = "merge"}

\* A provider adapter of the prompt failed: its error text is a result the
\* task waits with, or one of the outputs verify_and_merge was called with.
AdapterFailed(p) ==
    \/ prompt_tasks[p].gpt_result \in ErrorTexts
    \/ prompt_tasks[p].deepseek_result \in ErrorTexts
    \/ \E i \in MergeCalls(p) :
            \E k \in 1..Len(invoked[p][i].args[1]) : invoked[p][i].args[1][k] \in ErrorTexts

\* C16: when a provider adapter of a prompt failed, the prompt gets no error
\* message, verify_and_merge is called with the values of both adapters, the
\* error text among them, and when the task has ended the prompt has exactly
\* one final message.
C16_ProviderFailureAbsorbed ==
    \A p \in PromptIds :
        AdapterFailed(p) =>
            /\ Errors(p) = {}
            /\ \A i \in MergeCalls(p) :
                    /\ Len(invoked[p][i].args[1]) = 2
                    /\ invoked[p][i].args[1][1] \in GptTexts
                    /\ invoked[p][i].args[1][2] \in DeepseekTexts
            /\ prompt_tasks[p].pc = "done" =>
                    Cardinality(MergeCalls(p)) = 1 /\ Cardinality(Finals(p)) = 1

C16_Witness ==
    \E p \in PromptIds :
        /\ prompt_tasks[p].pc = "done"
        /\ \E i \in MergeCalls(p) :
                invoked[p][i].args[1] = <<"Error calling OpenAI API", "x">>
        /\ Finals(p) # {}

\* C17: a prompt task that waits for its providers gets its terminal message
\* (final or error) in the end, also when call_deepseek never returns while
\* call_gpt does.
C17_HangNotBlocking ==
    \A p \in PromptIds :
        (prompt_tasks[p].pc = "gather") ~> (Finals(p) \cup Errors(p) # {})

\* The session holds a reasoning annotation that names the tool.
Annotated(tool_name) ==
    \E k \in 1..Len(chat.chain_of_thought) :
        chat.chain_of_thought[k] = <<"Direct result from", tool_name>>

\* C19: when a prompt task has run a tool and has ended, the session holds an
\* assistant message of the prompt and a reasoning annotation naming the
\* tool; and whenever a tool-handled prompt has a final message, the session
\* holds the assistant message with the content of that final message.
C19_ToolExecutionRecorded ==
    \A p \in PromptIds :
        /\ (Tools(p) # {} /\ prompt_tasks[p].pc = "done") =>
                /\ \E i \in 1..Len(chat.messages) :
                        chat.messages[i].role = "assistant" /\ chat.messages[i].prompt_id = p
                /\ \A i \in Tools(p) : Annotated(invoked[p][i].fn)
        /\ Tools(p) # {} =>
                \A i \in Finals(p) : Recorded(p, sent[p][i].final_source)

\* ------------------------------------------------------- session claims
\* C18: with several prompt tasks running on one session, every step leaves
\* the messages the session had where they were and only adds after them,
\* and every assistant message stands after the user message of its prompt.
C18_Ordered ==
    \A j \in 1..Len(chat.messages) :
        chat.messages[j].role = "assistant" =>
            \E i \in 1..(j - 1) :
                /\ chat.messages[i].role = "user"
                /\ chat.messages[i].prompt_id = chat.messages[j].prompt_id

C18_Prefix ==
    /\ Len(chat'.messages) >= Len(chat.messages)
    /\ SubSeq(chat'.messages, 1, Len(chat.messages)) = chat.messages

C18_AppendOnly == []C18_Ordered /\ [][C18_Prefix]_vars

\* Two prompts in flight: the second prompt's user and assistant messages
\* stand between the first prompt's user and assistant message.
C18_Witness ==
    /\ Len(chat.messages) >= 4
    /\ \E p, q \in PromptIds :
        /\ p # q
        /\ chat.messages[1].prompt_id = p /\ chat.messages[1].role = "user"
        /\ chat.messages[2].prompt_id = q /\ chat.messages[2].role = "user"
        /\ chat.messages[3].prompt_id = q /\ chat.messages[3].role = "assistant"
        /\ chat.messages[4].prompt_id = p /\ chat.messages[4].role = "assistant"

\* ------------------------------------------------------ task store claims
\* The subtasks of a project as the plan calls laid them out: id and action
\* of every list position.
Layout(t, p) ==
    [i \in 1..Len(t[p].subtasks) |->
        <<t[p].subtasks[i].subtask_id, t[p].subtasks[i].action>>]

\* C21: add_subtasks appends and keeps the order: every step of plan,
\* execute and finalize calls keeps each project, and leaves the subtasks it
\* had at their positions with their ids; new subtasks come only after them.
C21_Extended ==
    \A p \in DOMAIN tasks :
        /\ p \in DOMAIN tasks'
        /\ Len(tasks'[p].subtasks) >= Len(tasks[p].subtasks)
        /\ SubSeq(Layout(tasks', p), 1, Len(tasks[p].subtasks)) = Layout(tasks, p)

C21_AppendOnly == [][C21_Extended]_vars

\* A second plan call was made after the first plan's subtask was executed:
\* three subtasks cannot come from one call, and the new one stands last.
C21_Witness ==
    \E p \in DOMAIN tasks :
        /\ Len(tasks[p].subtasks) = MaxSeqSubtasks
        /\ tasks[p].subtasks[1].status # "pending"
        /\ tasks[p].subtasks[MaxSeqSubtasks].status = "pending"
        /\ tasks[p].subtasks[1].action # tasks[p].subtasks[MaxSeqSubtasks].action

\* The positions a step has added to the subtask list of project p.
Added(p) == (Len(tasks[p].subtasks) + 1)..Len(tasks'[p].subtasks)

\* C22: every subtask a plan call appends starts pending, with a null result
\* and an id no other subtask of the store has, whatever keys its spec carries.
C22_Fresh ==
    \A p \in DOMAIN tasks : \A i \in Added(p) :
        /\ tasks'[p].subtasks[i].status = "pending"
        /\ tasks'[p].subtasks[i].result = Null
        /\ \A q \in DOMAIN tasks' : \A j \in 1..Len(tasks'[q].subtasks) :
               <<q, j>> # <<p, i>> =>
                   tasks'[q].subtasks[j].subtask_id # tasks'[p].subtasks[i].subtask_id

C22_StartsPending == [][C22_Fresh]_vars

\* The ids no project has.
Unknown == ProjectIds \ DOMAIN tasks

NotFound(op) == ret' = [op |-> op, kind |-> "not_found", link |-> NoLink]

\* C23: add_subtasks, execute_next_task, get_task_status and
\* finalize_project called with an id no project has each report that the
\* project was not found and leave the store as it was.
C23_Plan ==
    \A p \in Unknown, plan \in Plans1(SubtaskSpecs) :
        Plan(p, plan, MaxKeySubtasks) => NotFound("plan") /\ StoreUnchanged

C23_Execute ==
    \A p \in Unknown :
        execute_next_task(p, MaxKeySubtasks + 1) => NotFound("execute") /\ StoreUnchanged

C23_Status ==
    \A p \in Unknown : get_task_status(p) => NotFound("status") /\ StoreUnchanged

C23_Finalize ==
    \A p \in Unknown, zipped, removed \in BOOLEAN :
        finalize_project(p, zipped, removed) => NotFound("finalize") /\ StoreUnchanged

C23_UnknownProject ==
    [][C23_Plan /\ C23_Execute /\ C23_Status /\ C23_Finalize]_vars

\* An execute_next_task call by the one caller on a project with nothing
\* pending.
NothingPendingCall(p) ==
    /\ execute_next_task(p, MaxSeqSubtasks + 1)
    /\ Pending(p) = {}

\* C24 as stated: execute_next_task on a project with no pending subtask
\* returns the ready-to-finalize text and changes nothing in the store.
C24_Ready ==
    \A p \in DOMAIN tasks :
        NothingPendingCall(p)
        => /\ ret'.kind = "ready_to_finalize"
           /\ StoreUnchanged

C24_AlwaysSentinel == [][C24_Ready]_vars

\* C24: execute_next_task on a project with no pending subtask changes
\* nothing in the store; it returns the ready-to-finalize text while the
\* project is not completed and the already-completed text once it is.
C24_Told ==
    \A p \in DOMAIN tasks :
        NothingPendingCall(p)
        => /\ ret'.op = "execute"
           /\ ret'.kind = IF tasks[p].status = "completed" THEN "already_completed"
                          ELSE "ready_to_finalize"
           /\ ret'.link = NoLink
           /\ StoreUnchanged

C24_NothingPending == [][C24_Told]_vars

\* The call was made on a project whose subtask list is empty.
C24_Witness ==
    /\ ret.op = "execute" /\ ret.kind = "ready_to_finalize"
    /\ \E p \in DOMAIN tasks :
        /\ tasks[p].subtasks = <<>>
        /\ tasks[p].status = "pending"
        /\ \A q \in DOMAIN tasks : q # p => Pending(q) # {}

\* A step of an execute_next_task call on project p: its start, or its
\* return from generate_image.
ExecuteStep(p) ==
    \/ execute_next_task(p, MaxExec)
    \/ \E call \in BagToSet(calls), moved \in BOOLEAN :
            call.project_id = p /\ execute_next_task_resume(call, moved)

\* The positions of project p whose subtask a step has changed.
Changed(p) ==
    {i \in 1..Len(tasks[p].subtasks) : tasks'[p].subtasks[i] # tasks[p].subtasks[i]}

\* C25: a step of an execute_next_task call writes at most one subtask of
\* its project, and of that subtask only status and result; the project's
\* status, its other fields, the number of its subtasks and every other
\* project stay as they were. Only the last step of a call writes at all.
C25_Frame ==
    \A p \in DOMAIN tasks :
        ExecuteStep(p)
        => /\ DOMAIN tasks' = DOMAIN tasks
           /\ \A q \in DOMAIN tasks : q # p => tasks'[q] = tasks[q]
           /\ tasks'[p].status = tasks[p].status
           /\ tasks'[p].completed_at = tasks[p].completed_at
           /\ tasks'[p].prompt = tasks[p].prompt
           /\ Len(tasks'[p].subtasks) = Len(tasks[p].subtasks)
           /\ Cardinality(Changed(p)) <= 1
           /\ \A i \in Changed(p) :
                \A k \in DOMAIN tasks[p].subtasks[i] \ {"status", "result"} :
                    tasks'[p].subtasks[i][k] = tasks[p].subtasks[i][k]
           /\ BagCardinality(calls') > BagCardinality(calls) => Changed(p) = {}

C26_CompletedArchived ==
    \A p \in DOMAIN tasks :
        tasks[p].status = "completed"
        => /\ tasks[p].completed_at # Null
           /\ ZipName(tasks[p].prompt) \in zips
           /\ p \notin folders

\* ------------------------------------------------------ session store claims
\* C27: every connection gets a chat id no session had, with an empty
\* history; the messages of a session are the ones its own prompt tasks
\* appended; a step that appends to one session leaves every other session
\* as it was; and create_chat_session on an id that is in the store leaves
\* the whole store as it was.
C27_Own ==
    \A c \in DOMAIN chat_sessions :
        \A i \in 1..Len(chat_sessions[c].messages) :
            chat_sessions[c].messages[i].prompt_id = c

C27_Frame ==
    /\ accept =>
        /\ store_call'.chat_id \notin DOMAIN chat_sessions
        /\ chat_sessions'[store_call'.chat_id] = [messages |-> <<>>, chain_of_thought |-> <<>>]
        /\ \A d \in DOMAIN chat_sessions : chat_sessions'[d] = chat_sessions[d]
    /\ \A c \in ChatIds :
        (\/ \E raised \in BOOLEAN : prompt_task_start(c, raised)
         \/ prompt_task_finish(c))
        => /\ DOMAIN chat_sessions' = DOMAIN chat_sessions
           /\ \A d \in DOMAIN chat_sessions : d # c => chat_sessions'[d] = chat_sessions[d]
    /\ \A c \in DOMAIN chat_sessions :
        create_chat_session_call(c) => chat_sessions' = chat_sessions

C27_SessionsIsolated == []C27_Own /\ [][C27_Frame]_vars

\* Two sessions, the first with a history, and create_chat_session has just
\* been called with the id of the first.
C27_Witness ==
    \E c, d \in DOMAIN chat_sessions :
        /\ c # d
        /\ Len(chat_sessions[c].messages) = 2
        /\ chat_sessions[c].chain_of_thought # <<>>
        /\ chat_sessions[d].messages = <<>>
        /\ store_call = [op |-> "create_chat_session", chat_id |-> c]

\* The prompt tasks of connection c that have not ended.
TasksAlive(c) == session_tasks[c].created + session_tasks[c].running

\* C28: once the websocket of a session is closed, the session leaves the
\* store in the end, and the prompt tasks of the connection come to an end
\* and append no more.
C28_SessionRemoved ==
    \A c \in ChatIds : (sockets[c] = "closed") ~> (c \notin DOMAIN chat_sessions)

C28_TasksEnd ==
    \A c \in ChatIds : (sockets[c] = "closed") ~> (TasksAlive(c) = 0)

C28_DestroyedOnDisconnect == C28_SessionRemoved /\ C28_TasksEnd

\* ------------------------------------------------------------ draining
PendingIn(t, p) == {i \in 1..Len(t[p].subtasks) : t[p].subtasks[i].status = "pending"}

\* The step on which an execute_next_task call of the one caller on project
\* p returns, at most limit starts per project.
ExecuteReturns(p, limit) ==
    \/ execute_next_task(p, limit) /\ calls' = calls
    \/ \E call \in BagToSet(calls), moved \in BOOLEAN :
            call.project_id = p /\ execute_next_task_resume(call, moved)

\* A call that returns on a project with pending subtasks settles one of them.
Drains(p, limit) ==
    (ExecuteReturns(p, limit) /\ PendingIn(tasks, p) # {})
    => \E i \in PendingIn(tasks, p) :
        /\ PendingIn(tasks', p) = PendingIn(tasks, p) \ {i}
        /\ tasks'[p].subtasks[i].status \in {"completed", "failed"}

\* With nothing pending, finalize_project is not refused for pending subtasks.
Permitted(p) ==
    \A zipped, removed \in BOOLEAN :
        (finalize_project(p, zipped, removed) /\ PendingIn(tasks, p) = {})
        => ret'.kind # "not_all_complete"

\* C29: with calls made one after the other, every execute_next_task call
\* on a project with pending subtasks moves exactly one of them to completed
\* or failed, whatever its action, so n calls drain n pending subtasks; and
\* once none is pending finalize_project is not refused.
C29_PollingDrains ==
    [][\A p \in DOMAIN tasks : Drains(p, MaxKeySubtasks + 1) /\ Permitted(p)]_vars

\* The same with plans whose specs carry an action and its parameters only.
C29_PlainDrains ==
    [][\A p \in DOMAIN tasks : Drains(p, MaxSeqSubtasks + 1) /\ Permitted(p)]_vars

\* ------------------------------------------------------------ finalize
\* C30: a finalize_project call on a project that is not completed is
\* refused with the not-all-complete error exactly when a subtask of the
\* project is pending; otherwise, with subtasks that are completed or failed
\* or with none, the call makes the project completed.
C30_Exactly ==
    \A p \in DOMAIN tasks, zipped, removed \in BOOLEAN :
        (finalize_project(p, zipped, removed) /\ tasks[p].status # "completed")
        => /\ ret'.op = "finalize"
           /\ ret'.kind = "not_all_complete" <=> PendingIn(tasks, p) # {}
           /\ PendingIn(tasks, p) # {} => tasks' = tasks
           /\ PendingIn(tasks, p) = {} =>
                /\ tasks'[p].status = "completed"
                /\ tasks'[p].completed_at # Null
                /\ tasks'[p].subtasks = tasks[p].subtasks

C30_RefusedIffPending == [][C30_Exactly]_vars

\* A project with a failed subtask and a completed one has been finalized.
C30_Witness ==
    /\ ret.op = "finalize" /\ ret.kind = "finalized"
    /\ \E p \in DOMAIN tasks :
        /\ tasks[p].status = "completed"
        /\ \E i, j \in 1..Len(tasks[p].subtasks) :
            /\ tasks[p].subtasks[i].status = "failed"
            /\ tasks[p].subtasks[j].status = "completed"

\* ------------------------------------------------------ completed projects
\* C31: in every state a completed project has no pending subtask.
C31_CompletedHasNoPending ==
    \A p \in DOMAIN tasks : tasks[p].status = "completed" => PendingIn(tasks, p) = {}

\* The step on which finalize_project marks project p completed.
FinalizeCompletes(p) ==
    tasks[p].status # "completed" /\ tasks'[p].status = "completed"

\* C32: finalize_project completes a project only while no execute_next_task
\* call of that project is in flight, and once a project is completed and
\* its workspace removed no step of an execute_next_task call updates one of
\* its subtasks or writes into its workspace.
C32_Apart ==
    \A p \in DOMAIN tasks :
        /\ FinalizeCompletes(p) => InFlight(p) = {}
        /\ (tasks[p].status = "completed" /\ p \notin folders /\ ExecuteStep(p))
           => /\ tasks'[p].subtasks = tasks[p].subtasks
              /\ folders' = folders

C32_NoOverlap == [][C32_Apart]_vars

\* C33: in every state the result of a subtask is null exactly when its
\* status is pending.
C33_ResultIffSettled ==
    \A p \in DOMAIN tasks : \A i \in 1..Len(tasks[p].subtasks) :
        tasks[p].subtasks[i].result = Null <=> tasks[p].subtasks[i].status = "pending"
====
